---- MODULE Spec2Model ----
(***************************************************************************)
(* Checkout (POST /api/billing) of the hotspot-sarees point of sale, with  *)
(* the stock rows it reads and writes and the purchases it creates.        *)
(*                                                                         *)
(* The database is PostgreSQL behind Prisma.  The checkout runs inside an  *)
(* interactive transaction at isolation level ReadCommitted: a statement   *)
(* reads the rows committed when it runs, a row written by a transaction   *)
(* stays locked until that transaction ends, and the writes of a           *)
(* transaction become visible together at its commit or not at all.        *)
(* Amounts are whole rupees; Tolerance counts hundredths of a rupee.       *)
(***************************************************************************)
EXTENDS Integers, Sequences, FiniteSets, TLC

\* ------------------------------------------------------------------ bounds
NumCalls == 2
MaxQty == 2
InitQty == 2
MaxDay == 2
MaxAmount == 2

\* -------------------------------------------------------- program constants
Tolerance == 1

Calls == 1..NumCalls
StockIds == {"s1", "s2"}
NewStockIds == {"s3"}
AllStockIds == StockIds \cup NewStockIds
Days == 1..MaxDay

PaymentMethods == {"cash", "card", "upi"}

None == [kind |-> "none"]
NoRows == [s \in {} |-> 0]

VARIABLES
    today,       \* the server's local calendar day
    earlier,     \* purchases committed on day 1 before the calls below, by
                 \* checkouts run one after another (their rows are not kept)
    stocks,      \* committed stocks rows: id -> [quantity]
    purchases,   \* committed purchases rows with their purchase_items, oldest first
    payments,    \* committed payments rows
    pc,          \* where each checkout call stands
    req,         \* the request body of each call
    invoiceNumber, \* the invoice number each call generated
    snap,        \* stockMap: the stock rows the call's findMany returned
    stockUpdates, \* the updates the call computed
    pend,        \* indices of stockUpdates not yet executed
    txStock,     \* rows written by the call's open transaction (and locked by it)
    txPurchase,  \* the purchase inserted by the call's open transaction
    attempts,    \* how many times the call has run prisma.$transaction
    result,      \* what each finished call returned or threw
    transports,  \* committed transports rows, oldest first (the id is the position)
    tcalls,      \* the calls of /api/transport: where each stands and what it holds
    stockRows,   \* the stockID column of the stocks rows, oldest row first
    scalls,      \* the calls of POST /api/stock: where each stands and what it holds
    cart,        \* POS page, state cart: the array of cart items, as references
    heap,        \* the cart item objects that the arrays reference
    isProcessingPurchase, \* POS page, state isProcessingPurchase
    rendered,    \* the state the handlers of the last render close over
    scans,       \* the barcode lookups of the page: where each stands, what it holds
    requests,    \* the createPurchase requests the page has sent
    expected     \* per stock id, the completed adds as adjusted by updates and removals

transportVars == <<transports, tcalls>>

codeVars == <<stockRows, scalls>>

pageVars == <<cart, heap, isProcessingPurchase, rendered, scans, requests, expected>>

\* what the checkout and the warehouse leave alone
sideVars == <<transportVars, codeVars, pageVars>>

vars == <<today, earlier, stocks, purchases, payments, pc, req, invoiceNumber, snap,
          stockUpdates, pend, txStock, txPurchase, attempts, result, sideVars>>

callVars == <<pc, req, invoiceNumber, snap, stockUpdates, pend, txStock,
              txPurchase, attempts, result>>

\* what the transport routes and the POS page leave alone
billingVars == <<today, earlier, stocks, purchases, payments, callVars>>

\* --------------------------------------------------------------- helpers
RECURSIVE SumSeq(_)
SumSeq(s) == IF s = <<>> THEN 0 ELSE Head(s) + SumSeq(Tail(s))

\* quantities a request asks of stock id s, over all its lines
Demand(r, s) ==
    SumSeq([i \in DOMAIN r.items |->
              IF r.items[i].stockId = s THEN r.items[i].quantity ELSE 0])

\* ------------------------------------------------ generateInvoiceNumber
\* String(n): the decimal digits of a number n >= 0
RECURSIVE Digits(_)
Digits(n) == IF n < 10 THEN <<n>> ELSE Append(Digits(n \div 10), n % 10)

\* padStart(w, '0'): zeros in front up to width w, a longer string is left as it is
PadStart(s, w) == IF Len(s) >= w THEN s ELSE [i \in 1..(w - Len(s)) |-> 0] \o s

\* the local date of calendar day d: day 1 is 9 September 2025
Calendar(d) == [year |-> 2025, month |-> 9, date |-> 8 + d]

\* `${year}${month}${day}`
DateDigits(d) ==
    Digits(Calendar(d).year) \o PadStart(Digits(Calendar(d).month), 2)
        \o PadStart(Digits(Calendar(d).date), 2)

\* the count that ignores the day
TotalCount(day) == earlier + Len(purchases)

\* prisma.purchase.count over createdAt in [startOfDay, endOfDay)
\* the count that takes every finished call for a purchase
FinishedCount(day) == Cardinality({p \in Calls : pc[p] = "done"})

TodayCount(day) ==
    Cardinality({i \in DOMAIN purchases : purchases[i].createdAt = day})
        + (IF day = 1 THEN earlier ELSE 0)

GenerateInvoiceNumber(day) ==
    [prefix |-> "INV",
     date |-> DateDigits(day),
     sequence |-> PadStart(Digits(TodayCount(day) + 1), 4)]

\* the number a string of digits reads as
RECURSIVE NumberOf(_)
NumberOf(s) == IF s = <<>> THEN 0 ELSE 10 * NumberOf(SubSeq(s, 1, Len(s) - 1)) + s[Len(s)]

\* -------------------------------------------------- createPurchaseSchema
\* a quantity of it.quantity and a half is written with the key "half"
IsInt(it) == "half" \notin DOMAIN it

ValidItem(it) ==
    /\ it.stockId # ""
    /\ IsInt(it)
    /\ it.quantity > 0
    /\ it.unitPrice > 0
    /\ it.totalPrice > 0

\* the schema without its test of the lines
SchemaIgnoresItems(r) ==
    /\ "customerName" \in DOMAIN r
    /\ r.customerName # ""
    /\ r.subtotal > 0
    /\ r.discountAmount >= 0
    /\ r.taxAmount >= 0
    /\ r.totalAmount > 0
    /\ r.paymentMethod \in PaymentMethods

\* isSplitPayment and splitPayments are no keys of the schema: zod drops them
CreatePurchaseSchema(r) ==
    /\ "customerName" \in DOMAIN r
    /\ r.customerName # ""
    /\ r.subtotal > 0
    /\ r.discountAmount >= 0
    /\ r.taxAmount >= 0
    /\ r.totalAmount > 0
    /\ r.paymentMethod \in PaymentMethods
    /\ Len(r.items) >= 1
    /\ \A i \in DOMAIN r.items : ValidItem(r.items[i])

\* ------------------------------------------------------- the unique index
\* the index missing: no insert is ever refused
NoUniqueIndex(n) == FALSE

\* purchases_invoiceNumber_key, against committed rows; the earlier purchases of
\* day 1 hold the numbers 1..earlier of that day
InvoiceNumberTaken(n) ==
    \/ \E i \in DOMAIN purchases : purchases[i].invoiceNumber = n
    \/ n.date = DateDigits(1) /\ NumberOf(n.sequence) \in 1..earlier

\* an uncommitted insert of the same key by another transaction: the insert waits
InvoiceNumberPending(p, n) ==
    \E q \in Calls \ {p} : txPurchase[q] # None /\ txPurchase[q].invoiceNumber = n

\* a row written by another open transaction is locked
RowLocked(p, s) == \E q \in Calls \ {p} : s \in DOMAIN txStock[q]

\* ------------------------------------------------- the validation loop
\* the availability test reduced to "the row is not empty"
InsufficientOnlyWhenEmpty(stock, item) == stock.quantity <= 0

\* the availability test of one line
Insufficient(stock, item) == stock.quantity < item.quantity

\* the availability test made for the first line only
FirstBadChecksFirstLine(items, rows, i) ==
    LET missing == {j \in DOMAIN items : items[j].stockId \notin DOMAIN rows} IN
    IF missing # {} THEN CHOOSE j \in missing : \A k \in missing : j <= k
    ELSE IF Insufficient(rows[items[1].stockId], items[1]) THEN 1
    ELSE 0

\* index of the first line the loop throws on, 0 when every line passes
RECURSIVE FirstBad(_, _, _)
FirstBad(items, rows, i) ==
    IF i > Len(items) THEN 0
    ELSE IF items[i].stockId \notin DOMAIN rows THEN i
    ELSE IF Insufficient(rows[items[i].stockId], items[i]) THEN i
    ELSE FirstBad(items, rows, i + 1)

\* the update that writes back the quantity it read
NewQuantityAsRead(stock, item) == stock.quantity

NewQuantity(stock, item) == stock.quantity - item.quantity

StockUpdatesOf(items, rows) ==
    [i \in DOMAIN items |->
        [id |-> items[i].stockId,
         newQuantity |-> NewQuantity(rows[items[i].stockId], items[i])]]

\* the error that always reports the first line of the request
StockErrorOfFirstLine(items, rows) ==
    IF items[1].stockId \notin DOMAIN rows
    THEN [kind |-> "not_found", stockId |-> items[1].stockId]
    ELSE [kind |-> "insufficient", stockId |-> items[1].stockId,
          available |-> rows[items[1].stockId].quantity,
          required |-> items[1].quantity]

\* the Error the validation loop throws: its message carries the item, the
\* quantity read and the quantity asked for
StockError(items, rows) ==
    LET i == FirstBad(items, rows, 1) IN
    IF items[i].stockId \notin DOMAIN rows
    THEN [kind |-> "not_found", stockId |-> items[i].stockId]
    ELSE [kind |-> "insufficient", stockId |-> items[i].stockId,
          available |-> rows[items[i].stockId].quantity,
          required |-> items[i].quantity]

\* -------------------------------------------------------- tx.purchase.create
\* the item rows priced from the stock rows instead of the request
PurchaseRowAtStockPrice(p, r, n, day) ==
    [id |-> p,
     invoiceNumber |-> n,
     createdAt |-> day,
     customerName |-> r.customerName,
     subtotal |-> r.subtotal,
     discountAmount |-> r.discountAmount,
     taxAmount |-> r.taxAmount,
     totalAmount |-> r.totalAmount,
     paymentMethod |-> r.paymentMethod,
     isSplitPayment |-> FALSE,
     items |-> [i \in DOMAIN r.items |->
                  [stockId |-> r.items[i].stockId,
                   quantity |-> r.items[i].quantity,
                   unitPrice |-> stocks[r.items[i].stockId].unitPrice,
                   totalPrice |-> r.items[i].quantity * stocks[r.items[i].stockId].unitPrice]]]

\* the row and its purchase_items as inserted: ids are cuid()s, one per call here;
\* a customerName left out would take the column's default
PurchaseRow(p, r, n, day) ==
    [id |-> p,
     invoiceNumber |-> n,
     createdAt |-> day,
     customerName |-> IF "customerName" \in DOMAIN r THEN r.customerName
                      ELSE "Walk-in Customer",
     subtotal |-> r.subtotal,
     discountAmount |-> r.discountAmount,
     taxAmount |-> r.taxAmount,
     totalAmount |-> r.totalAmount,
     paymentMethod |-> r.paymentMethod,
     isSplitPayment |-> FALSE,
     items |-> [i \in DOMAIN r.items |->
                  [stockId |-> r.items[i].stockId,
                   quantity |-> r.items[i].quantity,
                   unitPrice |-> r.items[i].unitPrice,
                   totalPrice |-> r.items[i].totalPrice]]]

\* ------------------------------------------------------------- requests
Item(s, q, u, t) == [stockId |-> s, quantity |-> q, unitPrice |-> u, totalPrice |-> t]

Request(items, sub, disc, tax, total, pm, split, sp) ==
    [customerName |-> "Asha",
     items |-> items, subtotal |-> sub, discountAmount |-> disc, taxAmount |-> tax,
     totalAmount |-> total, paymentMethod |-> pm, isSplitPayment |-> split,
     splitPayments |-> sp]

\* the same request under another customer name, and with the key left out
Named(r, name) == [r EXCEPT !.customerName = name]
WithoutName(r) == [f \in DOMAIN r \ {"customerName"} |-> r[f]]

\* a cart as the POS page sends it: one line per stock id, unit price 1, no discount
CartRequest(items) ==
    LET sub == SumSeq([i \in DOMAIN items |-> items[i].totalPrice]) IN
    Request(items, sub, 0, 0, sub, "cash", FALSE, <<>>)

Line(s, q) == Item(s, q, 1, q)

CartRequests ==
    {CartRequest(<<Line("s1", q)>>) : q \in 1..MaxQty}
    \cup {CartRequest(<<Line("s3", 1)>>)}
    \cup {CartRequest(<<Line(a[1], 1), Line(a[2], 1)>>) :
            a \in {<<"s1", "s2">>, <<"s2", "s1">>, <<"s2", "s3">>}}

\* the same stock id on two lines of one request
DuplicateLineRequests ==
    {CartRequest(<<Line("s1", q1), Line("s1", q2)>>) : q1 \in 1..MaxQty, q2 \in 1..MaxQty}

\* one line of stock s1: subtotal and total free, a discount and a tax that add
\* up, and the prices of the line free
AmountRequests ==
    {Request(<<Item("s1", 1, 1, 1)>>, sub, 0, 0, total, "cash", FALSE, <<>>) :
        sub \in 0..MaxAmount, total \in 0..MaxAmount}
    \cup {Request(<<Item("s1", 1, 1, 1)>>, 1, disc, tax, 1 - disc + tax, "cash", FALSE, <<>>) :
            disc \in 0..1, tax \in 0..1}
    \cup {Request(<<Item("s1", 1, u, t)>>, 1, 0, 0, 1, "cash", FALSE, <<>>) :
            u \in 1..MaxAmount, t \in 1..MaxAmount}

Payment(m, a) == [paymentMethod |-> m, amount |-> a]

\* split payments: as the POS page sends them (paymentMethod "split") and with a
\* payment method the schema knows
SplitRequests ==
    {Request(<<Item("s1", 1, MaxAmount, MaxAmount)>>, MaxAmount, 0, 0, MaxAmount, pm, TRUE, sp) :
        pm \in {"cash", "split"},
        sp \in {<<Payment("cash", MaxAmount)>>,
                <<Payment("cash", 1), Payment("card", MaxAmount - 1)>>}}

\* split payments sent to the endpoint directly: no payments at all, or payments
\* that fall short of the total
SplitMismatchRequests ==
    {Request(<<Item("s1", 1, MaxAmount, MaxAmount)>>, MaxAmount, 0, 0, MaxAmount, pm, TRUE, sp) :
        pm \in {"cash", "split"},
        sp \in {<<>>, <<Payment("cash", MaxAmount - 1)>>}}

\* the line with half a unit more
AndAHalf(it) == [f \in DOMAIN it \cup {"half"} |-> IF f = "half" THEN TRUE ELSE it[f]]

\* requests the schema is there to refuse: no lines, a quantity that is not a
\* positive integer, a unit price that is not positive, a negative discount or tax
MalformedRequests ==
    {Request(<<>>, 1, 0, 0, 1, "cash", FALSE, <<>>)}
    \cup {Request(<<AndAHalf(Item("s1", 1, 1, 1))>>, 1, 0, 0, 1, "cash", FALSE, <<>>)}
    \cup {Request(<<Item("s1", q, 1, 1)>>, 1, 0, 0, 1, "cash", FALSE, <<>>) : q \in {-1, 0}}
    \cup {Request(<<Item("s1", 1, 0, 1)>>, 1, 0, 0, 1, "cash", FALSE, <<>>)}
    \cup {Request(<<Item("s1", 1, 1, 1)>>, 1, disc, tax, 1, "cash", FALSE, <<>>) :
            disc \in {-1, 0}, tax \in {-1, 0}}

\* one line of s1 under every kind of customer name: given, empty, one space, absent
NameRequests ==
    {Named(CartRequest(<<Item("s1", 1, 1, 1)>>), name) : name \in {"Asha", "", " "}}
    \cup {WithoutName(CartRequest(<<Item("s1", 1, 1, 1)>>))}

\* a discount as large as the subtotal, and one larger
DiscountRequests ==
    {Request(<<Item("s1", 1, MaxAmount, MaxAmount)>>, MaxAmount, disc, 0, 1, "cash", FALSE, <<>>) :
        disc \in {MaxAmount, MaxAmount + 1}}

SequentialRequests ==
    DuplicateLineRequests \cup AmountRequests \cup SplitRequests
        \cup SplitMismatchRequests \cup MalformedRequests \cup NameRequests
        \cup DiscountRequests

\* single lines, for the runs with the warehouse at work
InventoryIds == {"s1"} \cup NewStockIds

InventoryRequests ==
    {CartRequest(<<Line("s1", q)>>) : q \in 1..MaxQty}
    \cup {CartRequest(<<Line(s, 1)>>) : s \in NewStockIds}

\* one unit of s1 at every price
PricedRequests == {CartRequest(<<Item("s1", 1, u, u)>>) : u \in 1..MaxAmount}

\* how many purchases the day may already have: none, and two short of each
\* power of ten the sequence field can meet
BusyCounts == {0, 8, 98, 998, 9998}

NoReq == CartRequest(<<>>)

\* ------------------------------------------------------------------ Init
\* ------------------------------------------------------ /api/transport
\* a transports row as POST /api/transport creates it
Transport(no, amount, gst) ==
    [invoiceNo |-> no, amount |-> amount, gst |-> gst, totalAmount |-> amount + gst]

IdleCall == [pc |-> "idle"]

InvoiceNos == {"A", "B"}

\* bodies of POST /api/transport: every key of the schema that matters here
PostBodies ==
    {[invoiceNo |-> no, amount |-> a, gst |-> g] :
        no \in InvoiceNos, a \in {1, MaxAmount}, g \in {0, 1}}

\* bodies of PUT /api/transport/[id]: every key is optional, one is sent
PutBodies ==
    {[invoiceNo |-> no] : no \in InvoiceNos}
    \cup {[amount |-> a] : a \in 1..MaxAmount}
    \cup {[gst |-> g] : g \in {0, 1}}

\* ------------------------------------------------------ generateStockID
\* `HS-${counter.toString().padStart(4, '0')}`
StockIDOf(counter) == [prefix |-> "HS", digits |-> PadStart(Digits(counter), 4)]

\* a shop on day 1 with n purchases already made that day and no call running
InitAfter(n) ==
    /\ today = 1
    /\ earlier = n
    /\ stocks = [s \in StockIds |-> [quantity |-> InitQty, unitPrice |-> 1]]
    /\ purchases = <<>>
    /\ payments = {}
    /\ pc = [p \in Calls |-> "idle"]
    /\ req = [p \in Calls |-> NoReq]
    /\ invoiceNumber = [p \in Calls |-> None]
    /\ snap = [p \in Calls |-> NoRows]
    /\ stockUpdates = [p \in Calls |-> <<>>]
    /\ pend = [p \in Calls |-> {}]
    /\ txStock = [p \in Calls |-> NoRows]
    /\ txPurchase = [p \in Calls |-> None]
    /\ attempts = [p \in Calls |-> 0]
    /\ result = [p \in Calls |-> None]
    /\ transports = <<Transport("A", 1, 0)>>
    /\ tcalls = [c \in Calls |-> IdleCall]
    /\ stockRows = [i \in 1..Cardinality(StockIds) |-> StockIDOf(i)]
    /\ scalls = [c \in Calls |-> IdleCall]
    /\ cart = <<>>
    /\ heap = <<>>
    /\ isProcessingPurchase = FALSE
    /\ rendered = [cart |-> <<>>, isProcessingPurchase |-> FALSE]
    /\ scans = [c \in Calls |-> IdleCall]
    /\ requests = [c \in Calls |-> "idle"]
    /\ expected = [id \in StockIds |-> 0]

Init == InitAfter(0)

InitBusyDay == \E n \in BusyCounts : InitAfter(n)

\* ------------------------------------------------------------ the handler
\* The call ends with response res; whatever its transaction wrote is dropped.
Finish(p, res) ==
    /\ pc' = [pc EXCEPT ![p] = "done"]
    /\ result' = [result EXCEPT ![p] = res]
    /\ txStock' = [txStock EXCEPT ![p] = NoRows]
    /\ txPurchase' = [txPurchase EXCEPT ![p] = None]
    /\ pend' = [pend EXCEPT ![p] = {}]
    /\ invoiceNumber' = [invoiceNumber EXCEPT ![p] = None]
    /\ snap' = [snap EXCEPT ![p] = NoRows]
    /\ stockUpdates' = [stockUpdates EXCEPT ![p] = <<>>]

\* the stock updates sent outside the transaction: they survive the failure
RollbackKeepsStock(p, res) ==
    /\ Finish(p, res)
    /\ stocks' = [s \in DOMAIN stocks |->
                    IF s \in DOMAIN txStock[p] THEN txStock[p][s] ELSE stocks[s]]
    /\ UNCHANGED <<purchases, payments>>

\* prisma.$transaction rolls back when its callback throws or it times out
Rollback(p, res) ==
    /\ Finish(p, res)
    /\ UNCHANGED <<stocks, purchases, payments>>

\* POST up to the start of the transaction: parse, validate, generate the number
Receive(p, R) ==
    /\ pc[p] = "idle"
    /\ \E r \in R :
        /\ req' = [req EXCEPT ![p] = r]
        /\ IF CreatePurchaseSchema(r)
           THEN /\ invoiceNumber' = [invoiceNumber EXCEPT ![p] = GenerateInvoiceNumber(today)]
                /\ pc' = [pc EXCEPT ![p] = "tx"]
                /\ UNCHANGED result
           ELSE /\ pc' = [pc EXCEPT ![p] = "done"]
                /\ result' = [result EXCEPT ![p] = [kind |-> "validation"]]
                /\ UNCHANGED invoiceNumber
    \* calls are interchangeable: they are numbered in the order they arrive
    /\ \A q \in Calls : q < p => pc[q] # "idle"
    /\ UNCHANGED <<today, earlier, sideVars, stocks, purchases, payments, snap, stockUpdates, pend,
                   txStock, txPurchase, attempts>>

\* the transaction opens; findMany; the validation loop
FindStocks(p) ==
    /\ pc[p] = "tx"
    /\ LET ids == {req[p].items[i].stockId : i \in DOMAIN req[p].items}
           rows == [s \in ids \cap DOMAIN stocks |-> stocks[s]]
       IN IF FirstBad(req[p].items, rows, 1) = 0
          THEN /\ snap' = [snap EXCEPT ![p] = rows]
               /\ stockUpdates' = [stockUpdates EXCEPT ![p] = StockUpdatesOf(req[p].items, rows)]
               /\ pend' = [pend EXCEPT ![p] = DOMAIN req[p].items]
               /\ pc' = [pc EXCEPT ![p] = "update"]
               /\ UNCHANGED <<stocks, purchases, payments, txStock, txPurchase, result,
                              invoiceNumber>>
          ELSE Rollback(p, StockError(req[p].items, rows))
    /\ attempts' = [attempts EXCEPT ![p] = attempts[p] + 1]
    /\ UNCHANGED <<today, earlier, sideVars, req>>

\* one tx.stock.update of the batch: it sets the quantity of the row as it is now,
\* and throws when the row is gone
UpdateStock(p) ==
    /\ pc[p] = "update"
    /\ \E i \in pend[p] :
        LET u == stockUpdates[p][i]
            row == IF u.id \in DOMAIN txStock[p] THEN txStock[p][u.id] ELSE stocks[u.id]
        IN
        /\ ~RowLocked(p, u.id)
        /\ IF u.id \in DOMAIN stocks
           THEN /\ txStock' = [txStock EXCEPT ![p] =
                     [s \in DOMAIN txStock[p] \cup {u.id} |->
                        IF s = u.id THEN [row EXCEPT !.quantity = u.newQuantity]
                        ELSE txStock[p][s]]]
                /\ pend' = [pend EXCEPT ![p] = pend[p] \ {i}]
                /\ pc' = [pc EXCEPT ![p] = IF pend[p] = {i} THEN "create" ELSE "update"]
                /\ UNCHANGED <<stocks, purchases, payments, invoiceNumber, snap,
                               stockUpdates, txPurchase, result>>
           ELSE Rollback(p, [kind |-> "record_missing"])
    /\ UNCHANGED <<today, earlier, sideVars, req, attempts>>

\* tx.purchase.create
CreatePurchase(p) ==
    /\ pc[p] = "create"
    /\ ~InvoiceNumberPending(p, invoiceNumber[p])
    /\ IF InvoiceNumberTaken(invoiceNumber[p])
       THEN Rollback(p, [kind |-> "unique"])
       ELSE /\ txPurchase' = [txPurchase EXCEPT ![p] =
                                PurchaseRow(p, req[p], invoiceNumber[p], today)]
            /\ pc' = [pc EXCEPT ![p] = "commit"]
            /\ UNCHANGED <<stocks, purchases, payments, pend, txStock, result,
                           invoiceNumber, snap, stockUpdates>>
    /\ UNCHANGED <<today, earlier, sideVars, req, attempts>>

\* the callback returned: the transaction commits
Commit(p) ==
    /\ pc[p] = "commit"
    /\ stocks' = [s \in DOMAIN stocks |->
                    IF s \in DOMAIN txStock[p] THEN txStock[p][s] ELSE stocks[s]]
    /\ purchases' = Append(purchases, txPurchase[p])
    /\ Finish(p, [kind |-> "success", purchase |-> txPurchase[p]])
    /\ UNCHANGED <<today, earlier, sideVars, payments, req, attempts>>

\* the transaction fails while open: the 30 s timeout, a deadlock, a lost connection
Abort(p) ==
    /\ pc[p] \in {"update", "create", "commit"}
    /\ Rollback(p, [kind |-> "transaction"])
    /\ UNCHANGED <<today, earlier, sideVars, req, attempts>>

\* ------------------------------------------------------- the catch block
\* whether the message of a thrown error contains 'Transaction' or 'transaction':
\* Prisma's messages for a closed, expired or conflicting transaction do; the
\* messages thrown by the validation loop, for a unique constraint and for a
\* missing record do not
MentionsTransaction(err) == err.kind = "transaction"

Message(err) ==
    CASE err.kind = "not_found" -> "Stock item with ID not found"
      [] err.kind = "insufficient" -> "Insufficient stock"
      [] err.kind = "unique" -> "Unique constraint failed on the fields: invoiceNumber"
      [] err.kind = "record_missing" -> "Record to update not found."
      [] OTHER -> "Transaction already closed"

\* the response the handler sends for what the call returned or threw
Response(res) ==
    IF res.kind = "success"
    THEN [status |-> 201, success |-> TRUE, error |-> ""]
    ELSE IF res.kind = "validation"
    THEN [status |-> 400, success |-> FALSE, error |-> "Validation failed"]
    ELSE IF MentionsTransaction(res)
    THEN [status |-> 503, success |-> FALSE,
          error |-> "Database transaction failed. Please try again."]
    ELSE [status |-> 400, success |-> FALSE, error |-> Message(res)]

\* midnight passes
Tick ==
    /\ today < MaxDay
    /\ today' = today + 1
    /\ UNCHANGED <<earlier, sideVars, stocks, purchases, payments>>
    /\ UNCHANGED callVars

\* ------------------------------------------------------------ the warehouse
\* POST /api/stock: a new row with a positive quantity
StockPost(s, q) ==
    /\ s \in NewStockIds \ DOMAIN stocks
    /\ q > 0
    /\ stocks' = [t \in DOMAIN stocks \cup {s} |->
                    IF t = s THEN [quantity |-> q, unitPrice |-> 1] ELSE stocks[t]]
    /\ UNCHANGED <<today, earlier, sideVars, purchases, payments>>
    /\ UNCHANGED callVars

\* PUT /api/stock/[id] with a quantity: the row exists, the update waits for its lock
StockPut(s, q) ==
    /\ s \in DOMAIN stocks
    /\ q > 0
    /\ ~RowLocked(0, s)
    /\ stocks' = [stocks EXCEPT ![s].quantity = q]
    /\ UNCHANGED <<today, earlier, sideVars, purchases, payments>>
    /\ UNCHANGED callVars

\* PUT /api/stock/[id] with a unit price
StockPutPrice(s, u) ==
    /\ s \in DOMAIN stocks
    /\ u > 0
    /\ ~RowLocked(0, s)
    /\ stocks' = [stocks EXCEPT ![s].unitPrice = u]
    /\ UNCHANGED <<today, earlier, sideVars, purchases, payments>>
    /\ UNCHANGED callVars

\* the purchase_items that reference stock row s go with it (ON DELETE CASCADE)
WithoutItemsOf(rows, s) ==
    [i \in DOMAIN rows |->
        [rows[i] EXCEPT !.items = SelectSeq(rows[i].items, LAMBDA it : it.stockId # s)]]

\* DELETE /api/stock/[id]: the row exists, the delete waits for its lock
StockDelete(s) ==
    /\ s \in DOMAIN stocks
    /\ ~RowLocked(0, s)
    /\ stocks' = [t \in DOMAIN stocks \ {s} |-> stocks[t]]
    /\ purchases' = WithoutItemsOf(purchases, s)
    /\ UNCHANGED <<today, earlier, sideVars, payments>>
    /\ UNCHANGED callVars

\* a call received while no other call is in flight
ReceiveAlone(p, R) ==
    /\ \A q \in Calls \ {p} : pc[q] \in {"idle", "done"}
    /\ Receive(p, R)

\* ------------------------------------------------------ /api/transport
\* transports_invoiceNo_key: a row other than row id holds the number
InvoiceNoHeld(no, id) ==
    \E i \in DOMAIN transports : i # id /\ transports[i].invoiceNo = no

\* the answer of a transport route
Answer(c, status, error) ==
    [pc |-> "done", kind |-> tcalls[c].kind, id |-> tcalls[c].id, body |-> tcalls[c].body,
     status |-> status, error |-> error]

\* POST /api/transport up to its findUnique: the body is parsed and the invoice
\* number looked up
PostFind(c, b) ==
    /\ tcalls[c].pc = "idle"
    /\ \A d \in Calls : d < c => tcalls[d].pc # "idle"
    /\ tcalls' = [tcalls EXCEPT ![c] =
          IF InvoiceNoHeld(b.invoiceNo, 0)
          THEN [pc |-> "done", kind |-> "post", id |-> 0, body |-> b,
                status |-> 400, error |-> "Invoice number already exists"]
          ELSE [pc |-> "create", kind |-> "post", id |-> 0, body |-> b]]
    /\ UNCHANGED <<transports, billingVars, codeVars, pageVars>>

\* prisma.transport.create: the unique index has the last word
PostCreate(c) ==
    /\ tcalls[c].pc = "create"
    /\ LET b == tcalls[c].body IN
       IF InvoiceNoHeld(b.invoiceNo, 0)
       THEN /\ tcalls' = [tcalls EXCEPT ![c] =
                            Answer(c, 500, "Failed to create transport record")]
            /\ UNCHANGED transports
       ELSE /\ transports' = Append(transports, Transport(b.invoiceNo, b.amount, b.gst))
            /\ tcalls' = [tcalls EXCEPT ![c] = Answer(c, 201, "")]
    /\ UNCHANGED <<billingVars, codeVars, pageVars>>

\* PUT /api/transport/[id] up to its first findUnique: the row is read
PutFind(c, id, b) ==
    /\ tcalls[c].pc = "idle"
    /\ \A d \in Calls : d < c => tcalls[d].pc # "idle"
    /\ tcalls' = [tcalls EXCEPT ![c] =
          IF id \notin DOMAIN transports
          THEN [pc |-> "done", kind |-> "put", id |-> id, body |-> b,
                status |-> 404, error |-> "Transport record not found"]
          ELSE [pc |-> IF "invoiceNo" \in DOMAIN b
                          /\ b.invoiceNo # transports[id].invoiceNo
                       THEN "duplicate" ELSE "update",
                kind |-> "put", id |-> id, body |-> b,
                existingTransport |-> transports[id]]]
    /\ UNCHANGED <<transports, billingVars, codeVars, pageVars>>

\* the second findUnique of PUT, made when the invoice number changes
PutDuplicate(c) ==
    /\ tcalls[c].pc = "duplicate"
    /\ tcalls' = [tcalls EXCEPT ![c] =
          IF InvoiceNoHeld(tcalls[c].body.invoiceNo, 0)
          THEN Answer(c, 400, "Invoice number already exists")
          ELSE [tcalls[c] EXCEPT !.pc = "update"]]
    /\ UNCHANGED <<transports, billingVars, codeVars, pageVars>>

\* the total written with every update, from the body and the row as it was read
PutTotal(b, existing) ==
    (IF "amount" \in DOMAIN b THEN b.amount ELSE existing.amount)
        + (IF "gst" \in DOMAIN b THEN b.gst ELSE existing.gst)

\* prisma.transport.update: the keys of the body and totalAmount are written
PutUpdate(c) ==
    /\ tcalls[c].pc = "update"
    /\ LET b == tcalls[c].body
           id == tcalls[c].id
           row == [f \in DOMAIN transports[id] |->
                     IF f = "totalAmount" THEN PutTotal(b, tcalls[c].existingTransport)
                     ELSE IF f \in DOMAIN b THEN b[f]
                     ELSE transports[id][f]]
       IN IF "invoiceNo" \in DOMAIN b /\ InvoiceNoHeld(b.invoiceNo, id)
          THEN /\ tcalls' = [tcalls EXCEPT ![c] =
                               Answer(c, 500, "Failed to update transport record")]
               /\ UNCHANGED transports
          ELSE /\ transports' = [transports EXCEPT ![id] = row]
               /\ tcalls' = [tcalls EXCEPT ![c] = Answer(c, 200, "")]
    /\ UNCHANGED <<billingVars, codeVars, pageVars>>

\* the transport routes, called concurrently
NextTransport ==
    \/ \E c \in Calls, b \in PostBodies : PostFind(c, b)
    \/ \E c \in Calls : PostCreate(c)
    \/ \E c \in Calls, id \in 1..(Len(transports) + 1), b \in PutBodies : PutFind(c, id, b)
    \/ \E c \in Calls : PutDuplicate(c)
    \/ \E c \in Calls : PutUpdate(c)

SpecTransport == Init /\ [][NextTransport]_vars

\* ------------------------------------------------------ POST /api/stock
\* stocks_stockID_key
StockIDHeld(stockID) == \E i \in DOMAIN stockRows : stockRows[i] = stockID

\* POST /api/stock is called: the body is parsed, generateStockID starts at 1
StockPostBegin(c) ==
    /\ scalls[c].pc = "idle"
    /\ \A d \in Calls : d < c => scalls[d].pc # "idle"
    /\ scalls' = [scalls EXCEPT ![c] = [pc |-> "generate", counter |-> 1]]
    /\ UNCHANGED <<stockRows, billingVars, transportVars, pageVars>>

\* one turn of the loop of generateStockID: findUnique on the candidate
GenerateStockID(c) ==
    /\ scalls[c].pc = "generate"
    /\ scalls' = [scalls EXCEPT ![c] =
          IF StockIDHeld(StockIDOf(scalls[c].counter))
          THEN [pc |-> "generate", counter |-> scalls[c].counter + 1]
          ELSE [pc |-> "create", stockID |-> StockIDOf(scalls[c].counter)]]
    /\ UNCHANGED <<stockRows, billingVars, transportVars, pageVars>>

\* prisma.stock.create with the generated stockID
StockCreate(c) ==
    /\ scalls[c].pc = "create"
    /\ IF StockIDHeld(scalls[c].stockID)
       THEN /\ scalls' = [scalls EXCEPT ![c] =
                  [pc |-> "done", stockID |-> scalls[c].stockID, status |-> 500]]
            /\ UNCHANGED stockRows
       ELSE /\ stockRows' = Append(stockRows, scalls[c].stockID)
            /\ scalls' = [scalls EXCEPT ![c] =
                  [pc |-> "done", stockID |-> scalls[c].stockID, status |-> 201]]
    /\ UNCHANGED <<billingVars, transportVars, pageVars>>

\* DELETE /api/stock/[id] of the i-th row
StockRowDelete(i) ==
    /\ i \in DOMAIN stockRows
    /\ stockRows' = SubSeq(stockRows, 1, i - 1) \o SubSeq(stockRows, i + 1, Len(stockRows))
    /\ UNCHANGED <<scalls, billingVars, transportVars, pageVars>>

\* stock rows created and deleted concurrently
NextStockID ==
    \/ \E c \in Calls : StockPostBegin(c)
    \/ \E c \in Calls : GenerateStockID(c)
    \/ \E c \in Calls : StockCreate(c)
    \/ \E i \in DOMAIN stockRows : StockRowDelete(i)

SpecStockID == Init /\ [][NextStockID]_vars

\* ------------------------------------------------------ the POS page
\* the product on the counter
CartIds == {"s1"}

\* what a scanner or the barcode field can deliver
Barcodes == CartIds \cup {"unknown"}

\* const newItem: CartItem = { stock, quantity: 1, totalPrice: stock.unitPrice }
CartItem(id, quantity) ==
    [stockId |-> id, quantity |-> quantity, totalPrice |-> quantity * stocks[id].unitPrice]

\* cart.findIndex((item) => item.stock.id === stock.id), 0 for none
FindIndex(h, k, id) ==
    IF \E i \in DOMAIN k : h[k[i]].stockId = id
    THEN CHOOSE i \in DOMAIN k :
            /\ h[k[i]].stockId = id
            /\ \A j \in 1..(i - 1) : h[k[j]].stockId # id
    ELSE 0

\* the live item objects keep their order; the others are collected
Rank(r, live) == Cardinality({x \in live : x <= r})

Moved(k, live) == [i \in DOMAIN k |-> Rank(k[i], live)]

\* the page after a handler: state cart k, closure values r, lookups s, objects h
Settle(k, r, s, h) ==
    LET live == {k[i] : i \in DOMAIN k} \cup {r.cart[i] : i \in DOMAIN r.cart}
                \cup UNION {{s[c].cart[i] : i \in DOMAIN s[c].cart} :
                               c \in {d \in Calls : s[d].pc = "lookup"}}
    IN /\ cart' = Moved(k, live)
       /\ rendered' = [r EXCEPT !.cart = Moved(r.cart, live)]
       /\ scans' = [c \in Calls |->
             IF s[c].pc = "lookup"
             THEN [s[c] EXCEPT !.cart = Moved(s[c].cart, live)]
             ELSE s[c]]
       /\ heap' = [i \in 1..Cardinality(live) |->
                      h[CHOOSE x \in live : Rank(x, live) = i]]

\* the branch of handleBarcodeScan and handleProductSelect that changes the
\* cart: k is the cart of the handler's closure
AddToCart(k, id, s) ==
    LET i == FindIndex(heap, k, id)
    IN IF i > 0
       THEN Settle(k, rendered, s,
                   [heap EXCEPT ![k[i]] = CartItem(id, heap[k[i]].quantity + 1)])
       ELSE Settle(Append(k, Len(heap) + 1), rendered, s,
                   Append(heap, CartItem(id, 1)))

\* React renders: the handlers now close over the current state
Render ==
    /\ rendered # [cart |-> cart, isProcessingPurchase |-> isProcessingPurchase]
    /\ Settle(cart, [cart |-> cart, isProcessingPurchase |-> isProcessingPurchase],
              scans, heap)
    /\ UNCHANGED <<isProcessingPurchase, requests, expected,
                   billingVars, transportVars, codeVars>>

\* handleBarcodeScan up to the await of getStockByBarcode
ScanBegin(c, barcode) ==
    /\ scans[c].pc = "idle"
    /\ \A d \in Calls : d < c => scans[d].pc # "idle"
    /\ scans' = [scans EXCEPT ![c] =
          [pc |-> "lookup", barcode |-> barcode, cart |-> rendered.cart]]
    /\ UNCHANGED <<cart, heap, isProcessingPurchase, rendered, requests, expected,
                   billingVars, transportVars, codeVars>>

\* handleBarcodeScan after the await
ScanEnd(c) ==
    /\ scans[c].pc = "lookup"
    /\ LET done == [scans EXCEPT ![c] = [pc |-> "done"]]
       IN IF scans[c].barcode \in CartIds
          THEN /\ AddToCart(scans[c].cart, scans[c].barcode, done)
               /\ expected' = [expected EXCEPT ![scans[c].barcode] = @ + 1]
          ELSE /\ Settle(cart, rendered, done, heap)
               /\ UNCHANGED expected
    /\ UNCHANGED <<isProcessingPurchase, requests,
                   billingVars, transportVars, codeVars>>

\* handleProductSelect
ProductSelect(id) ==
    /\ expected[id] < MaxQty
    /\ LET i == FindIndex(heap, rendered.cart, id)
       IN i > 0 => heap[rendered.cart[i]].quantity < MaxQty
    /\ AddToCart(rendered.cart, id, scans)
    /\ expected' = [expected EXCEPT ![id] = @ + 1]
    /\ UNCHANGED <<isProcessingPurchase, requests,
                   billingVars, transportVars, codeVars>>

\* removeFromCart
RemoveFromCart(id) ==
    /\ Settle(SelectSeq(rendered.cart, LAMBDA x : heap[x].stockId # id),
              rendered, scans, heap)
    /\ expected' = [expected EXCEPT ![id] = 0]
    /\ UNCHANGED <<isProcessingPurchase, requests,
                   billingVars, transportVars, codeVars>>

\* updateQuantity, from the minus (by = -1) or the plus (by = 1) button of line i
UpdateQuantity(i, by) ==
    /\ i \in DOMAIN rendered.cart
    /\ LET item == heap[rendered.cart[i]]
           newQuantity == item.quantity + by
       IN /\ newQuantity <= MaxQty
          /\ IF newQuantity <= 0
             THEN RemoveFromCart(item.stockId)
             ELSE /\ LET fresh == {j \in DOMAIN rendered.cart :
                                      heap[rendered.cart[j]].stockId = item.stockId}
                         place(j) == Len(heap) + Cardinality({x \in fresh : x <= j})
                     IN Settle([j \in DOMAIN rendered.cart |->
                                   IF j \in fresh THEN place(j) ELSE rendered.cart[j]],
                               rendered, scans,
                               heap \o [n \in 1..Cardinality(fresh) |->
                                           CartItem(item.stockId, newQuantity)])
                  /\ expected' = [expected EXCEPT ![item.stockId] = newQuantity]
                  /\ UNCHANGED <<isProcessingPurchase, requests,
                                 billingVars, transportVars, codeVars>>

\* handleCompletePurchase up to the await of createPurchase
CompletePurchase(c) ==
    /\ requests[c] = "idle"
    /\ \A d \in Calls : d < c => requests[d] # "idle"
    /\ Len(rendered.cart) # 0
    /\ ~rendered.isProcessingPurchase
    /\ isProcessingPurchase' = TRUE
    /\ requests' = [requests EXCEPT ![c] = "flight"]
    /\ UNCHANGED <<cart, heap, rendered, scans, expected,
                   billingVars, transportVars, codeVars>>

\* handleCompletePurchase after the await: the response, then the finally block
PurchaseResponse(c, success) ==
    /\ requests[c] = "flight"
    /\ requests' = [requests EXCEPT ![c] = "done"]
    /\ isProcessingPurchase' = FALSE
    /\ IF success
       THEN /\ Settle(<<>>, rendered, scans, heap)
            /\ expected' = [id \in StockIds |-> 0]
       ELSE UNCHANGED <<cart, heap, rendered, scans, expected>>
    /\ UNCHANGED <<billingVars, transportVars, codeVars>>

\* one page instance: the handlers of the cart and the renders
NextCart ==
    \/ Render
    \/ \E c \in Calls, barcode \in Barcodes : ScanBegin(c, barcode)
    \/ \E c \in Calls : ScanEnd(c)
    \/ \E id \in CartIds : ProductSelect(id)
    \/ \E id \in CartIds : RemoveFromCart(id)
    \/ \E i \in DOMAIN rendered.cart, by \in {-1, 1} : UpdateQuantity(i, by)

SpecCart == Init /\ [][NextCart]_vars

\* one page instance: products are selected and the purchase is completed
NextPurchase ==
    \/ Render
    \/ \E id \in StockIds : ProductSelect(id)
    \/ \E c \in Calls : CompletePurchase(c)
    \/ \E c \in Calls, success \in BOOLEAN : PurchaseResponse(c, success)

SpecPurchase == Init /\ [][NextPurchase]_vars

Next ==
    \/ \E p \in Calls : Receive(p, CartRequests)
    \/ \E p \in Calls : FindStocks(p)
    \/ \E p \in Calls : UpdateStock(p)
    \/ \E p \in Calls : CreatePurchase(p)
    \/ \E p \in Calls : Commit(p)
    \/ \E p \in Calls : Abort(p)
    \/ Tick

Spec == Init /\ [][Next]_vars

\* checkouts one after another, with requests of every shape
NextSequential ==
    \/ \E p \in Calls : ReceiveAlone(p, SequentialRequests)
    \/ \E p \in Calls : FindStocks(p)
    \/ \E p \in Calls : UpdateStock(p)
    \/ \E p \in Calls : CreatePurchase(p)
    \/ \E p \in Calls : Commit(p)
    \/ \E p \in Calls : Abort(p)

SpecSequential == Init /\ [][NextSequential]_vars

\* concurrent checkouts while the warehouse adds and updates stock
NextInventory ==
    \/ \E p \in Calls : Receive(p, InventoryRequests)
    \/ \E p \in Calls : FindStocks(p)
    \/ \E p \in Calls : UpdateStock(p)
    \/ \E p \in Calls : CreatePurchase(p)
    \/ \E p \in Calls : Commit(p)
    \/ \E p \in Calls : Abort(p)
    \/ \E s \in InventoryIds, q \in 1..MaxQty : StockPost(s, q)
    \/ \E s \in InventoryIds, q \in 1..MaxQty : StockPut(s, q)

SpecInventory == Init /\ [][NextInventory]_vars

\* checkouts one after another on a day that has seen purchases already
NextBusyDay ==
    \/ \E p \in Calls : ReceiveAlone(p, InventoryRequests)
    \/ \E p \in Calls : FindStocks(p)
    \/ \E p \in Calls : UpdateStock(p)
    \/ \E p \in Calls : CreatePurchase(p)
    \/ \E p \in Calls : Commit(p)
    \/ \E p \in Calls : Abort(p)
    \/ Tick

SpecBusyDay == InitBusyDay /\ [][NextBusyDay]_vars

\* checkouts at every price, one after another, while the warehouse updates the
\* stock row
NextPricing ==
    \/ \E p \in Calls : ReceiveAlone(p, PricedRequests)
    \/ \E p \in Calls : FindStocks(p)
    \/ \E p \in Calls : UpdateStock(p)
    \/ \E p \in Calls : CreatePurchase(p)
    \/ \E p \in Calls : Commit(p)
    \/ \E p \in Calls : Abort(p)
    \/ \E q \in 1..MaxQty : StockPut("s1", q)
    \/ \E u \in 1..MaxAmount : StockPutPrice("s1", u)

SpecPricing == Init /\ [][NextPricing]_vars

\* checkouts while the warehouse deletes stock rows
NextDeletion ==
    \/ \E p \in Calls : Receive(p, CartRequests)
    \/ \E p \in Calls : FindStocks(p)
    \/ \E p \in Calls : UpdateStock(p)
    \/ \E p \in Calls : CreatePurchase(p)
    \/ \E p \in Calls : Commit(p)
    \/ \E p \in Calls : Abort(p)
    \/ \E s \in StockIds : StockDelete(s)

SpecDeletion == Init /\ [][NextDeletion]_vars


\* ===================================================================
\* Properties of the concurrent checkout (Spec)
\* ===================================================================
StockErrors == {"not_found", "insufficient"}

RECURSIVE SoldIn(_, _)
SoldIn(rows, s) ==
    IF rows = <<>> THEN 0
    ELSE SumSeq([i \in DOMAIN Head(rows).items |->
                   IF Head(rows).items[i].stockId = s
                   THEN Head(rows).items[i].quantity ELSE 0])
         + SoldIn(Tail(rows), s)

\* quantity of stock s on the committed purchase items
Sold(s) == SoldIn(purchases, s)

\* a line of r that the stock rows cannot serve
BadLine(r, rows) ==
    \E i \in DOMAIN r.items :
        \/ r.items[i].stockId \notin DOMAIN rows
        \/ rows[r.items[i].stockId].quantity < r.items[i].quantity

\* C1: the committed purchase items of a stock row never add up to more than
\* the quantity the row started with.
C1_NoOversell == \A s \in StockIds : Sold(s) <= InitQty

\* C2: a call that passed the stock check and whose invoice number is the one
\* another call has committed with still ends in success (unless its
\* transaction itself failed).
C2_InvoiceRaceBothSucceed ==
    [][\A p \in Calls :
          (/\ pc[p] = "create"
           /\ pc'[p] = "done"
           /\ InvoiceNumberTaken(invoiceNumber[p])
           /\ result'[p].kind # "transaction")
          => result'[p].kind = "success"]_vars

\* C3: no two committed purchases share an invoice number.
C3_InvoiceUnique ==
    \A i, j \in DOMAIN purchases :
        i # j => purchases[i].invoiceNumber # purchases[j].invoiceNumber

\* C3 witness: a call was refused for its invoice number while a purchase of
\* another call holds a number of the same day.
C3_Witness ==
    \E p \in Calls : /\ result[p].kind = "unique"
                     /\ \E i \in DOMAIN purchases : purchases[i].id # p

\* C4: when a line of the request names a stock row that does not exist or asks
\* for more than the row holds, the call ends with a stock error in the step that
\* read the rows; that step changes no stock, purchase or payment row, the call
\* has written nothing, and no purchase of that call ever exists.
C4_StockValidationAtomic ==
    [][\A p \in Calls :
          /\ (pc[p] = "tx" /\ pc'[p] # "tx" /\ BadLine(req[p], stocks))
              => /\ pc'[p] = "done"
                 /\ result'[p].kind \in StockErrors
                 /\ stocks' = stocks
                 /\ purchases' = purchases
                 /\ payments' = payments
                 /\ txStock[p] = NoRows /\ txStock'[p] = NoRows
                 /\ txPurchase[p] = None /\ txPurchase'[p] = None
          /\ result'[p].kind \in StockErrors
              => \A i \in DOMAIN purchases' : purchases'[i].id # p]_vars

\* C4 witness: a two-line request failed on its second line, the first being valid.
C4_Witness ==
    \E p \in Calls :
        /\ pc[p] = "done"
        /\ result[p].kind \in StockErrors
        /\ Len(req[p].items) = 2
        /\ req[p].items[1].stockId # req[p].items[2].stockId
        /\ result[p].stockId = req[p].items[2].stockId
        /\ \A i \in DOMAIN purchases : purchases[i].id # p

\* C5: a call that fails inside its transaction leaves every stock, purchase and
\* payment row as it was and keeps nothing of what it wrote; stock rows only ever
\* change in the step that also adds the purchase.
C5_FullRollback ==
    [][/\ \A p \in Calls :
            (/\ pc[p] \in {"update", "create", "commit"}
             /\ pc'[p] = "done"
             /\ result'[p].kind # "success")
            => /\ stocks' = stocks
               /\ purchases' = purchases
               /\ payments' = payments
               /\ txStock'[p] = NoRows
               /\ txPurchase'[p] = None
       /\ stocks' # stocks => Len(purchases') = Len(purchases) + 1]_vars

\* C5 witness: a call was refused at the insert, after its stock updates, and no
\* purchase of it exists.
C5_Witness ==
    \E p \in Calls :
        /\ result[p].kind = "unique"
        /\ \A i \in DOMAIN purchases : purchases[i].id # p
        /\ \A s \in StockIds : stocks[s].quantity + Sold(s) >= InitQty

\* C8: the commit of a successful call lowers every stock row by what the request
\* asks of it (nothing for a row it does not name), adds one purchase with one
\* item per request line, and writes no payment row.
C8_SuccessEffect ==
    [][\A p \in Calls :
          (pc[p] = "commit" /\ pc'[p] = "done" /\ result'[p].kind = "success")
          => /\ DOMAIN stocks' = DOMAIN stocks
             /\ \A s \in DOMAIN stocks :
                   stocks'[s].quantity = stocks[s].quantity - Demand(req[p], s)
             /\ Len(purchases') = Len(purchases) + 1
             /\ SubSeq(purchases', 1, Len(purchases)) = purchases
             /\ Len(purchases'[Len(purchases')].items) = Len(req[p].items)
             /\ payments' = payments]_vars

\* ===================================================================
\* Properties of checkouts run one after another (SpecSequential)
\* ===================================================================
Abs(x) == IF x < 0 THEN -x ELSE x

\* equal within the tolerance of 0.01 rupee
Within(a, b) == 100 * Abs(a - b) <= Tolerance

RECURSIVE SumAmounts(_)
SumAmounts(rows) ==
    IF rows = {} THEN 0
    ELSE LET r == CHOOSE x \in rows : TRUE IN r.amount + SumAmounts(rows \ {r})

PaymentsOf(id) == {y \in payments : y.purchaseId = id}

\* C6: the availability check compares the row's quantity with the sum of the
\* quantities the request asks of that row over all its lines, and the commit of
\* a successful call leaves the row at the quantity read minus that sum.
C6_DuplicateLinesSummed ==
    [][\A p \in Calls :
          /\ (/\ pc[p] = "tx" /\ pc'[p] # "tx"
               /\ \E s \in DOMAIN stocks : stocks[s].quantity < Demand(req[p], s))
              => (pc'[p] = "done" /\ result'[p].kind \in StockErrors)
          /\ (pc[p] = "commit" /\ pc'[p] = "done" /\ result'[p].kind = "success")
              => \A s \in DOMAIN snap[p] :
                    /\ snap[p][s].quantity >= Demand(req[p], s)
                    /\ stocks'[s].quantity = snap[p][s].quantity - Demand(req[p], s)]_vars

\* C9: every committed purchase has totalAmount = subtotal - discountAmount +
\* taxAmount and subtotal = the sum of its items' totalPrice, within 0.01.
C9_TotalConsistent ==
    \A i \in DOMAIN purchases :
        LET r == purchases[i] IN
        /\ Within(r.totalAmount, r.subtotal - r.discountAmount + r.taxAmount)
        /\ Within(r.subtotal, SumSeq([k \in DOMAIN r.items |-> r.items[k].totalPrice]))

\* C10: a finished call whose request is a split payment with amounts adding up
\* to totalAmount, and that met no stock or transaction failure, has committed a
\* split purchase with one payment row per entry; the payment rows of every split
\* purchase add up to its totalAmount and other purchases have none.
C10_SplitConservation ==
    /\ \A p \in Calls :
          (/\ pc[p] = "done"
           /\ req[p].isSplitPayment
           /\ req[p].splitPayments # <<>>
           /\ Within(SumSeq([k \in DOMAIN req[p].splitPayments |->
                                req[p].splitPayments[k].amount]), req[p].totalAmount)
           /\ result[p].kind \notin StockErrors \cup {"transaction", "unique"})
          => /\ result[p].kind = "success"
             /\ result[p].purchase.isSplitPayment
             /\ Cardinality(PaymentsOf(result[p].purchase.id)) = Len(req[p].splitPayments)
    /\ \A i \in DOMAIN purchases :
          IF purchases[i].isSplitPayment
          THEN Within(SumAmounts(PaymentsOf(purchases[i].id)), purchases[i].totalAmount)
          ELSE PaymentsOf(purchases[i].id) = {}

\* ===================================================================
\* Properties of the checkout beside the warehouse (SpecInventory)
\* ===================================================================
\* C7: every stock row, committed or written by an open transaction, has a
\* quantity of at least 0.
C7_QuantityNonNegative ==
    /\ \A s \in DOMAIN stocks : stocks[s].quantity >= 0
    /\ \A p \in Calls : \A s \in DOMAIN txStock[p] : txStock[p][s].quantity >= 0

\* C7 witness: stock s1 was refilled by the warehouse and sold down to nothing by
\* the checkouts, and a row created by the warehouse was sold too.
C7_Witness ==
    /\ stocks["s1"].quantity = 0
    /\ Sold("s1") > InitQty
    /\ \E s \in NewStockIds : s \in DOMAIN stocks

\* ===================================================================
\* Properties of the invoice number (Spec, SpecBusyDay)
\* ===================================================================
IsDigits(s) == \A i \in DOMAIN s : s[i] \in 0..9

\* INV-YYYYMMDD-NNNN
WellFormed(n) ==
    /\ n.prefix = "INV"
    /\ Len(n.date) = 8 /\ IsDigits(n.date)
    /\ Len(n.sequence) = 4 /\ IsDigits(n.sequence)

\* C13: the invoice number of every committed purchase is INV-, eight digits of
\* date, a dash and exactly four digits of sequence, however many purchases the
\* day has had before.
C13_InvoiceFormat == \A i \in DOMAIN purchases : WellFormed(purchases[i].invoiceNumber)

\* purchases whose createdAt lies in calendar day d
CreatedOn(d) ==
    Cardinality({i \in DOMAIN purchases : purchases[i].createdAt = d})
        + (IF d = 1 THEN earlier ELSE 0)

\* C14: the number a call generates carries the date of the day it is generated on
\* and, as its sequence, one more than the number of purchases created that day:
\* 0001 when the day has none, whatever other days have.
C14_DailySequence ==
    [][\A p \in Calls :
          (pc[p] = "idle" /\ pc'[p] = "tx")
          => /\ invoiceNumber'[p].date = DateDigits(today)
             /\ NumberOf(invoiceNumber'[p].sequence) = CreatedOn(today) + 1
             /\ CreatedOn(today) = 0 => invoiceNumber'[p].sequence = <<0, 0, 0, 1>>]_vars

\* C14 witness: on day 2 a call holds the number 0001 of that day, while day 1 has
\* had 9999 purchases, the last of them numbered 9999.
C14_Witness ==
    /\ today = 2
    /\ earlier = 9998
    /\ \E p \in Calls :
          /\ pc[p] \notin {"idle", "done"}
          /\ invoiceNumber[p].date = DateDigits(2)
          /\ invoiceNumber[p].sequence = <<0, 0, 0, 1>>
    /\ \E i \in DOMAIN purchases :
          /\ purchases[i].createdAt = 1
          /\ purchases[i].invoiceNumber.sequence = <<9, 9, 9, 9>>

\* C15: a call ends with the invoice-number failure only after a second or third
\* run of its transaction, no call runs its transaction more than three times,
\* and a call that fails in any other way has run it at most once.
C15_BoundedRetry ==
    [][\A p \in Calls :
          /\ attempts'[p] <= 3
          /\ (pc[p] # "done" /\ pc'[p] = "done" /\ result'[p].kind = "unique")
              => attempts'[p] \in 2..3
          /\ (pc'[p] = "done" /\ result'[p].kind \notin {"unique", "success"})
              => attempts'[p] <= 1]_vars

\* C16: a finished call that failed answers 400 to a malformed request, 404 to an
\* unknown stock id, 409 to insufficient stock or a refused invoice number, 500 or
\* 503 to a failed transaction, always with success = false and an error text.
C16_StatusMapping ==
    \A p \in Calls :
        (pc[p] = "done" /\ result[p].kind # "success")
        => LET resp == Response(result[p]) IN
           /\ resp.success = FALSE
           /\ resp.error # ""
           /\ result[p].kind = "validation" => resp.status = 400
           /\ result[p].kind = "not_found" => resp.status = 404
           /\ result[p].kind \in {"insufficient", "unique"} => resp.status = 409
           /\ result[p].kind = "transaction" => resp.status \in {500, 503}

\* ===================================================================
\* Properties of the request checks (SpecSequential)
\* ===================================================================
SplitTotal(r) == SumSeq([k \in DOMAIN r.splitPayments |-> r.splitPayments[k].amount])

\* a split payment with no payments or with payments off the total by more than 0.01
SplitMismatch(r) ==
    /\ r.isSplitPayment
    /\ (r.splitPayments = <<>> \/ ~Within(SplitTotal(r), r.totalAmount))

\* C11: a call whose request is a mismatching split payment ends on receipt with
\* the split-payment-mismatch error, never runs a transaction and changes no
\* stock, purchase or payment row.
C11_SplitMismatchRejected ==
    [][\A p \in Calls :
          /\ (pc[p] = "idle" /\ pc'[p] # "idle" /\ SplitMismatch(req'[p]))
              => /\ pc'[p] = "done"
                 /\ result'[p].kind = "split_mismatch"
                 /\ stocks' = stocks /\ purchases' = purchases /\ payments' = payments
          /\ SplitMismatch(req'[p]) => attempts'[p] = 0]_vars

\* C12: when a call commits a request that another call has already committed,
\* the two purchases differ in id and in invoice number, both are kept, and every
\* stock row the request names, lowered once already, is lowered again by the
\* quantity of a line that names it.
C12_NotIdempotent ==
    [][\A p, q \in Calls :
          (/\ p # q
           /\ result[p].kind = "success"
           /\ req[q] = req[p]
           /\ pc[q] = "commit" /\ pc'[q] = "done" /\ result'[q].kind = "success")
          => /\ result'[q].purchase.id # result[p].purchase.id
             /\ result'[q].purchase.invoiceNumber # result[p].purchase.invoiceNumber
             /\ \E i, j \in DOMAIN purchases' :
                   /\ i # j
                   /\ purchases'[i] = result[p].purchase
                   /\ purchases'[j] = result'[q].purchase
             /\ \A k \in DOMAIN req[q].items :
                   LET s == req[q].items[k].stockId IN
                   /\ stocks[s].quantity < InitQty
                   /\ stocks'[s].quantity < stocks[s].quantity
                   /\ \E m \in DOMAIN req[q].items :
                         /\ req[q].items[m].stockId = s
                         /\ stocks'[s].quantity
                              = stocks[s].quantity - req[q].items[m].quantity]_vars

\* C12 witness: two calls have committed the same request; there are two purchases
\* and stock row s1 is down by twice what the request asks of it.
C12_Witness ==
    \E p, q \in Calls :
        /\ p # q
        /\ result[p].kind = "success" /\ result[q].kind = "success"
        /\ req[p] = req[q]
        /\ Len(req[p].items) = 1
        /\ Len(purchases) >= 2
        /\ stocks["s1"].quantity = InitQty - 2 * Demand(req[p], "s1")
        /\ Demand(req[p], "s1") > 0

\* a request outside the shape the endpoint accepts
ShapeViolation(r) ==
    \/ r.items = <<>>
    \/ \E i \in DOMAIN r.items :
          \/ r.items[i].quantity <= 0
          \/ "half" \in DOMAIN r.items[i]
          \/ r.items[i].unitPrice <= 0
    \/ r.discountAmount < 0
    \/ r.taxAmount < 0

\* C17: a call whose request violates the shape ends on receipt with the
\* validation failure: no invoice number is generated, no transaction is run and
\* no stock, purchase or payment row changes.
C17_ValidationFailsFast ==
    [][\A p \in Calls :
          (pc[p] = "idle" /\ pc'[p] # "idle" /\ ShapeViolation(req'[p]))
          => /\ pc'[p] = "done"
             /\ result'[p].kind = "validation"
             /\ invoiceNumber'[p] = None
             /\ attempts'[p] = 0
             /\ txStock'[p] = NoRows /\ txPurchase'[p] = None
             /\ stocks' = stocks /\ purchases' = purchases /\ payments' = payments]_vars

\* C17 witness: after a purchase was committed, a request with a quantity that is
\* not positive was refused without a transaction.
C17_Witness ==
    \E p \in Calls :
        /\ pc[p] = "done"
        /\ result[p].kind = "validation"
        /\ req[p].items # <<>>
        /\ req[p].items[1].quantity <= 0
        /\ attempts[p] = 0
        /\ Len(purchases) >= 1

\* a customer name that is absent, empty or only spaces
BlankName(r) == "customerName" \notin DOMAIN r \/ r.customerName \in {"", " "}

\* C18: a finished call whose request has a blank customer name and is valid
\* otherwise, and that met no stock or transaction failure, has committed a
\* purchase whose customerName is "Walk-in Customer".
C18_WalkInDefault ==
    \A p \in Calls :
        (/\ pc[p] = "done"
         /\ BlankName(req[p])
         /\ CreatePurchaseSchema([f \in DOMAIN req[p] \cup {"customerName"} |->
                                     IF f = "customerName" THEN "Asha" ELSE req[p][f]])
         /\ result[p].kind \notin StockErrors \cup {"transaction", "unique"})
        => /\ result[p].kind = "success"
           /\ result[p].purchase.customerName = "Walk-in Customer"

\* ===================================================================
\* Properties of the purchase items beside the warehouse (SpecDeletion, SpecPricing)
\* ===================================================================
\* C19: every purchase keeps its items, every item references a stock row that
\* exists, and no step removes a stock row that a purchase item references.
C19_ReferencedStockKept ==
    [][/\ \A i \in DOMAIN purchases : purchases'[i].items = purchases[i].items
       /\ \A i \in DOMAIN purchases' : \A k \in DOMAIN purchases'[i].items :
             purchases'[i].items[k].stockId \in DOMAIN stocks'
       /\ \A s \in DOMAIN stocks \ DOMAIN stocks' : Sold(s) = 0]_vars

\* C20: the items of a committed purchase carry the unit price and the total price
\* of the request's lines, and no step, be it an update of a stock row or another
\* checkout, changes a purchase or purchase item that exists.
C20_FrozenSalePrice ==
    [][/\ \A p \in Calls :
            (pc[p] = "commit" /\ pc'[p] = "done" /\ result'[p].kind = "success")
            => LET row == purchases'[Len(purchases')] IN
               /\ row.id = p
               /\ Len(row.items) = Len(req[p].items)
               /\ \A k \in DOMAIN row.items :
                     /\ row.items[k].unitPrice = req[p].items[k].unitPrice
                     /\ row.items[k].totalPrice = req[p].items[k].totalPrice
       /\ SubSeq(purchases', 1, Len(purchases)) = purchases]_vars

\* C20 witness: s1 was sold twice at different prices, the stock row now has
\* another price than the first sale, and its quantity was set by the warehouse.
C20_Witness ==
    /\ "s1" \in DOMAIN stocks
    /\ stocks["s1"].quantity + Sold("s1") # InitQty
    /\ \E i, j \in DOMAIN purchases :
          /\ i < j
          /\ purchases[i].items[1].stockId = "s1"
          /\ purchases[j].items[1].stockId = "s1"
          /\ purchases[i].items[1].unitPrice # purchases[j].items[1].unitPrice
          /\ purchases[i].items[1].unitPrice # stocks["s1"].unitPrice

\* ===================================================================
\* Properties of the order of the checkout's steps (Spec)
\* ===================================================================
\* C21: a call gets its invoice number only after it has opened its transaction
\* and sent its stock updates, and the count behind the number is read in that
\* transaction.
C21_NumberAfterStockCheck ==
    [][\A p \in Calls :
          (invoiceNumber[p] = None /\ invoiceNumber'[p] # None)
          => /\ attempts[p] >= 1
             /\ stockUpdates[p] # <<>>
             /\ pend[p] = {}]_vars

\* C22: a call that ends with the insufficient-stock error names a stock row one
\* of its lines asks too much of, with available = the quantity that row holds
\* when the call checks it and required = the quantity of that line; the step
\* changes no stock row and no purchase.
C22_InsufficientReport ==
    [][\A p \in Calls :
          (pc[p] # "done" /\ pc'[p] = "done" /\ result'[p].kind = "insufficient")
          => /\ pc[p] = "tx"
             /\ result'[p].stockId \in DOMAIN stocks
             /\ result'[p].available = stocks[result'[p].stockId].quantity
             /\ \E i \in DOMAIN req[p].items :
                   /\ req[p].items[i].stockId = result'[p].stockId
                   /\ req[p].items[i].quantity = result'[p].required
                   /\ result'[p].required > result'[p].available
             /\ stocks' = stocks
             /\ purchases' = purchases]_vars

\* C22 witness: a two-line request was refused for its second line, of which
\* nothing was left, while its first line could have been served.
C22_Witness ==
    \E p \in Calls :
        /\ pc[p] = "done"
        /\ result[p].kind = "insufficient"
        /\ Len(req[p].items) = 2
        /\ result[p].stockId = req[p].items[2].stockId
        /\ result[p].available = 0
        /\ result[p].required = 1
        /\ stocks[req[p].items[1].stockId].quantity >= 1
        /\ stocks[req[p].items[2].stockId].quantity = 0

\* ===================================================================
\* Properties of the amounts and numbers of checkouts run one after another
\* (SpecSequential)
\* ===================================================================
\* C23: no committed purchase has a discountAmount above its subtotal.
C23_DiscountCap ==
    \A i \in DOMAIN purchases : purchases[i].discountAmount <= purchases[i].subtotal

\* C24: every item of a committed purchase has a positive quantity and a
\* totalPrice of quantity times unitPrice.
C24_ItemArithmetic ==
    \A i \in DOMAIN purchases : \A k \in DOMAIN purchases[i].items :
        LET it == purchases[i].items[k] IN
        /\ it.quantity > 0
        /\ it.totalPrice = it.quantity * it.unitPrice

\* C27: with the checkouts of one day run one after another, the n-th committed
\* purchase has sequence n, whatever calls failed before it.
C27_GapFree ==
    \A i \in DOMAIN purchases :
        /\ purchases[i].invoiceNumber.date = DateDigits(purchases[i].createdAt)
        /\ NumberOf(purchases[i].invoiceNumber.sequence) = earlier + i

\* C27 witness: the first call failed inside its transaction, after its number
\* was generated, and the second call committed the day's first purchase.
C27_Witness ==
    /\ result[1].kind \in {"transaction", "insufficient"}
    /\ Len(purchases) = 1
    /\ purchases[1].id = 2
    /\ purchases[1].invoiceNumber.sequence = <<0, 0, 0, 1>>

\* ===================================================================
\* Properties of the transport records (SpecTransport)
\* ===================================================================
\* C28: every transport record has totalAmount = amount + gst.
C28_TransportTotal ==
    \A i \in DOMAIN transports :
        transports[i].totalAmount = transports[i].amount + transports[i].gst

\* C29: no two transport records share an invoiceNo, and a call that ends while
\* another record holds the invoiceNo it wants to write is answered 400 "Invoice
\* number already exists" and changes no record.
C29_TransportInvoiceUnique ==
    [][/\ \A i, j \in DOMAIN transports' :
             i # j => transports'[i].invoiceNo # transports'[j].invoiceNo
       /\ \A c \in Calls :
             (/\ tcalls[c].pc # "done"
              /\ tcalls'[c].pc = "done"
              /\ tcalls'[c].kind = "put" => tcalls'[c].id \in DOMAIN transports
              /\ "invoiceNo" \in DOMAIN tcalls'[c].body
              /\ InvoiceNoHeld(tcalls'[c].body.invoiceNo, tcalls'[c].id))
             => /\ tcalls'[c].status = 400
                /\ tcalls'[c].error = "Invoice number already exists"
                /\ transports' = transports]_vars

\* ===================================================================
\* Properties of the stock codes (SpecStockID)
\* ===================================================================
\* the smallest n >= 1 whose code no row holds
SmallestFree == CHOOSE n \in 1..(Len(stockRows) + 1) :
    /\ ~StockIDHeld(StockIDOf(n))
    /\ \A m \in 1..(n - 1) : StockIDHeld(StockIDOf(m))

\* C30: the code a call generates is HS-n for the smallest n no row holds; no two
\* stock rows share a stockID; every POST /api/stock ends with status 201.
C30_StockIDAllocation ==
    [][/\ \A i, j \in DOMAIN stockRows' : i # j => stockRows'[i] # stockRows'[j]
       /\ \A c \in Calls :
             /\ (scalls[c].pc = "generate" /\ scalls'[c].pc = "create")
                 => scalls'[c].stockID = StockIDOf(SmallestFree)
             /\ (scalls[c].pc # "done" /\ scalls'[c].pc = "done")
                 => scalls'[c].status = 201]_vars

\* ===================================================================
\* Properties of the POS page (SpecCart, SpecPurchase)
\* ===================================================================
\* the quantity the cart shows for a stock id, 0 with no line
CartQuantity(id) ==
    LET i == FindIndex(heap, cart, id)
    IN IF i = 0 THEN 0 ELSE heap[cart[i]].quantity

\* C25: the cart never holds two lines for one stock id, and the quantity of a
\* line is the number of completed adds of that id as adjusted by updates and
\* removals, also with barcode lookups in flight.
C25_CartKeepsAdds ==
    /\ \A i, j \in DOMAIN cart : i # j => heap[cart[i]].stockId # heap[cart[j]].stockId
    /\ \A id \in StockIds : CartQuantity(id) = expected[id]

\* C26: at most one createPurchase request of the page is in flight.
C26_OneRequestInFlight ==
    Cardinality({c \in Calls : requests[c] = "flight"}) <= 1

====
